---- MODULE Spec2Model ----
(***************************************************************************)
(* Model of src/main.py: the Excel-to-PDF invoice converter.               *)
(*                                                                         *)
(* A text is a sequence of tokens.  The texts of the inputs (file names,   *)
(* headers, cell texts, the company name) and the numbers are sequences    *)
(* of one-character tokens; the fixed literals of the f-strings of the     *)
(* source ("Invoice nr.", "Date: ", ...) are one token each.  Joining the  *)
(* tokens of a text gives the Python string.                               *)
(*                                                                         *)
(* A document (the bytes returned by pdf.output) is modelled by its page   *)
(* content: the sequence of cells written by pdf.cell, and the embedded    *)
(* image.  A cell keeps its width, height, text, border, line break and    *)
(* the font style and size in force; the font family (always Times) and    *)
(* the text colour are left out.  The messages of the exceptions raised    *)
(* inside pandas and fpdf are one token each.                              *)
(*                                                                         *)
(* A character that a string of this module cannot hold (one outside       *)
(* ASCII, and the backquote) is the token of its code point, "<U+00E9>"    *)
(* for U+00E9.                                                             *)
(***************************************************************************)
EXTENDS Integers, Sequences, FiniteSets, TLC

VARIABLES uploaded_files, logo_file, pc, idx, pdf_files, errors, temp_files

vars == <<uploaded_files, logo_file, pc, idx, pdf_files, errors, temp_files>>

(***************************************************************************)
(* Bounds of the model.                                                    *)
(***************************************************************************)
\* longest batch of uploaded files
MaxFiles == 3
\* longest file name base (the part before ".xlsx") of the single-file runs
MaxNameLen == 5
\* most table rows of a sheet of the single-file runs
MaxRows == 2

(***************************************************************************)
(* Generic helpers on sequences.                                           *)
(***************************************************************************)
\* all sequences over S of length lo..hi
SeqsOf(S, lo, hi) == UNION {[1..n -> S] : n \in lo..hi}

\* s[a..b], empty when a > b
Slice(s, a, b) == IF a > b THEN <<>> ELSE SubSeq(s, a, b)

\* str.rfind: the last position of token c in s, 0 when absent (Python: -1)
RFind(s, c) ==
    LET P == {i \in 1..Len(s) : s[i] = c}
    IN  IF P = {} THEN 0 ELSE CHOOSE i \in P : \A j \in P : j <= i

\* the first position of x in s, 0 when absent
IndexOf(s, x) ==
    LET P == {i \in 1..Len(s) : s[i] = x}
    IN  IF P = {} THEN 0 ELSE CHOOSE i \in P : \A j \in P : i <= j

\* a variant of Split that cuts at the first separator only; not the code's
SplitOnce(s, sep) ==
    LET i == IndexOf(s, sep)
    IN  IF i = 0 THEN <<s>>
        ELSE <<Slice(s, 1, i - 1), Slice(s, i + 1, Len(s))>>

\* str.split(sep) for a one-character separator: the list of the segments
\* between separators; always at least one segment, segments may be empty
RECURSIVE Split(_, _)
Split(s, sep) ==
    LET i == IndexOf(s, sep)
    IN  IF i = 0 THEN <<s>>
        ELSE <<Slice(s, 1, i - 1)>> \o Split(Slice(s, i + 1, Len(s)), sep)

\* a variant of Stem that keeps the extension; not the code's
StemWholeName(name) == name

\* Path(name).stem for a name without directory separators: the name up to
\* its last dot, unless that dot is the first or the last character
Stem(name) ==
    LET i == RFind(name, ".")
    IN  IF 1 < i /\ i < Len(name) THEN Slice(name, 1, i - 1) ELSE name

(***************************************************************************)
(* Numbers and their string forms.  A cell value is an int, a float or a   *)
(* text: [t, n, s].  A float holds n halves (n = 5 is 2.5), which float64  *)
(* represents exactly, so float sums are exact.                            *)
(***************************************************************************)
IntVal(k) == [t |-> "int", n |-> k, s |-> <<>>]
FloatVal(h) == [t |-> "float", n |-> h, s |-> <<>>]
StrVal(txt) == [t |-> "str", n |-> 0, s |-> txt]

Digit(d) == <<"0", "1", "2", "3", "4", "5", "6", "7", "8", "9">>[d + 1]

RECURSIVE NatStr(_)
NatStr(k) == IF k < 10 THEN <<Digit(k)>> ELSE NatStr(k \div 10) \o <<Digit(k % 10)>>

\* str(int)
IntStr(k) == IF k < 0 THEN <<"-">> \o NatStr(-k) ELSE NatStr(k)

\* str(float) of h halves: "2.5", "400.0", "-0.5"
FloatStr(h) ==
    LET a == IF h < 0 THEN -h ELSE h
    IN  (IF h < 0 THEN <<"-">> ELSE <<>>)
        \o NatStr(a \div 2) \o <<".">> \o (IF a % 2 = 1 THEN <<"5">> ELSE <<"0">>)

\* str(value)
Str(v) ==
    CASE v.t = "int" -> IntStr(v.n)
      [] v.t = "float" -> FloatStr(v.n)
      [] v.t = "str" -> v.s

(***************************************************************************)
(* The sheet read by pd.read_excel(file, sheet_name="Sheet 1").            *)
(* An uploaded file is [name, sheet]; its sheet is                         *)
(* [present, columns, rows]: present says that the workbook has a sheet    *)
(* named "Sheet 1", columns are the header names (sequences of characters), *)
(* every row holds one value per column.                                   *)
(***************************************************************************)
\* "product_id"
ColProductId ==
    <<"p", "r", "o", "d", "u", "c", "t", "_", "i", "d">>
\* "product_name"
ColProductName ==
    <<"p", "r", "o", "d", "u", "c", "t", "_", "n", "a", "m", "e">>
\* "amount_purchased"
ColAmountPurchased ==
    <<"a", "m", "o", "u", "n", "t", "_", "p", "u", "r", "c",
      "h", "a", "s", "e", "d">>
\* "price_per_unit"
ColPricePerUnit ==
    <<"p", "r", "i", "c", "e", "_", "p", "e", "r", "_", "u",
      "n", "i", "t">>
\* "total_price"
ColTotalPrice ==
    <<"t", "o", "t", "a", "l", "_", "p", "r", "i", "c", "e">>

\* the values of column j, top to bottom
ColumnValues(sheet, j) == [r \in 1..Len(sheet.rows) |-> sheet.rows[r][j]]

\* the dtype pandas infers for a column: object when it is empty or holds a
\* text, else float64 when it holds a float, else int64
ColumnDtype(sheet, j) ==
    LET vals == ColumnValues(sheet, j)
    IN  IF Len(vals) = 0 \/ \E i \in 1..Len(vals) : vals[i].t = "str" THEN "object"
        ELSE IF \E i \in 1..Len(vals) : vals[i].t = "float" THEN "float64"
        ELSE "int64"

\* a value as stored in an array of the dtype (ints widen to floats)
Coerce(v, dtype) ==
    IF dtype = "float64" /\ v.t = "int" THEN FloatVal(2 * v.n) ELSE v

\* the dtype of the row Series df.iterrows() yields: the common dtype of all
\* columns
RowDtype(sheet) ==
    LET D == {ColumnDtype(sheet, j) : j \in 1..Len(sheet.columns)}
    IN  IF "object" \in D THEN "object"
        ELSE IF "float64" \in D THEN "float64" ELSE "int64"

\* row[key] for row r of df.iterrows(); key is a column of the sheet
RowValue(sheet, r, key) ==
    LET j == IndexOf(sheet.columns, key)
        v == Coerce(sheet.rows[r][j], ColumnDtype(sheet, j))
    IN  Coerce(v, RowDtype(sheet))

\* type(v).__name__ in the TypeError messages of +
TypeName(v) == v.t

\* a + b of two column values: [ok, val] or [ok, msg]
Add(a, b) ==
    CASE a.t = "str" /\ b.t = "str" ->
            [ok |-> TRUE, val |-> StrVal(a.s \o b.s), msg |-> <<>>]
      [] a.t = "str" /\ b.t # "str" ->
            [ok |-> FALSE, val |-> a,
             msg |-> <<"can only concatenate str (not \"", TypeName(b), "\") to str">>]
      [] a.t # "str" /\ b.t = "str" ->
            [ok |-> FALSE, val |-> a,
             msg |-> <<"unsupported operand type(s) for +: '", TypeName(a),
                       "' and '", TypeName(b), "'">>]
      [] OTHER ->
            [ok |-> TRUE, msg |-> <<>>,
             val |-> IF a.t = "int" /\ b.t = "int" THEN IntVal(a.n + b.n)
                     ELSE FloatVal(Coerce(a, "float64").n + Coerce(b, "float64").n)]

\* the left-to-right reduction of vals[i..] by + starting from acc
RECURSIVE Reduce(_, _, _)
Reduce(acc, vals, i) ==
    IF i > Len(vals) THEN [ok |-> TRUE, val |-> acc, msg |-> <<>>]
    ELSE LET r == Add(acc, vals[i])
         IN  IF r.ok THEN Reduce(r.val, vals, i + 1) ELSE r

\* a variant of ColumnSum that yields the last value of the column; not the
\* code's
ColumnLast(sheet, key) ==
    LET j == IndexOf(sheet.columns, key)
        k == Len(sheet.rows)
    IN  [ok |-> TRUE, msg |-> <<>>,
         val |-> IF k = 0 THEN IntVal(0)
                 ELSE Coerce(sheet.rows[k][j], ColumnDtype(sheet, j))]

\* df[key].sum() for a column of the sheet: 0 for an empty column, the sum of
\* a numeric column, and for an object column the reduction by +, which
\* concatenates texts and raises TypeError on a text next to a number
ColumnSum(sheet, key) ==
    LET j == IndexOf(sheet.columns, key)
        dtype == ColumnDtype(sheet, j)
        vals == [i \in 1..Len(sheet.rows) |-> Coerce(sheet.rows[i][j], dtype)]
    IN  IF Len(vals) = 0 THEN [ok |-> TRUE, val |-> IntVal(0), msg |-> <<>>]
        ELSE Reduce(vals[1], vals, 2)

(***************************************************************************)
(* Header labels: item.replace("_", " ").title()                           *)
(***************************************************************************)
\* The characters of a header are the printable ASCII characters and the
\* Latin-1 characters U+00A0..U+00FF; the labels are undefined on any other.
\* A character outside ASCII, and the backquote, is written as the token of
\* its code point.

\* the lower-case letters whose upper case is one Latin-1 character, and that
\* upper case at the same position
LowerLetters ==
    << "a", "b", "c", "d", "e", "f", "g", "h", "i", "j", "k", "l", "m",
       "n", "o", "p", "q", "r", "s", "t", "u", "v", "w", "x", "y", "z",
       "<U+00E0>", "<U+00E1>", "<U+00E2>", "<U+00E3>", "<U+00E4>",
       "<U+00E5>", "<U+00E6>", "<U+00E7>", "<U+00E8>", "<U+00E9>",
       "<U+00EA>", "<U+00EB>", "<U+00EC>", "<U+00ED>", "<U+00EE>",
       "<U+00EF>", "<U+00F0>", "<U+00F1>", "<U+00F2>", "<U+00F3>",
       "<U+00F4>", "<U+00F5>", "<U+00F6>", "<U+00F8>", "<U+00F9>",
       "<U+00FA>", "<U+00FB>", "<U+00FC>", "<U+00FD>", "<U+00FE>" >>

UpperLetters ==
    << "A", "B", "C", "D", "E", "F", "G", "H", "I", "J", "K", "L", "M",
       "N", "O", "P", "Q", "R", "S", "T", "U", "V", "W", "X", "Y", "Z",
       "<U+00C0>", "<U+00C1>", "<U+00C2>", "<U+00C3>", "<U+00C4>",
       "<U+00C5>", "<U+00C6>", "<U+00C7>", "<U+00C8>", "<U+00C9>",
       "<U+00CA>", "<U+00CB>", "<U+00CC>", "<U+00CD>", "<U+00CE>",
       "<U+00CF>", "<U+00D0>", "<U+00D1>", "<U+00D2>", "<U+00D3>",
       "<U+00D4>", "<U+00D5>", "<U+00D6>", "<U+00D8>", "<U+00D9>",
       "<U+00DA>", "<U+00DB>", "<U+00DC>", "<U+00DD>", "<U+00DE>" >>

\* the other cased characters, each with its title case: the ordinal
\* indicators stay, the micro sign gives the Greek capital mu, the sharp s
\* gives "Ss", the y with diaeresis gives its capital, which is not of Latin-1
OtherTitle ==
    ("<U+00AA>" :> <<"<U+00AA>">>) @@ ("<U+00B5>" :> <<"<U+039C>">>)
    @@ ("<U+00BA>" :> <<"<U+00BA>">>) @@ ("<U+00DF>" :> <<"S", "s">>)
    @@ ("<U+00FF>" :> <<"<U+0178>">>)

\* the characters str.title() takes for cased
CasedChars ==
    {LowerLetters[i] : i \in 1..Len(LowerLetters)}
    \cup {UpperLetters[i] : i \in 1..Len(UpperLetters)}
    \cup DOMAIN OtherTitle

\* the characters str.title() takes for uncased
UncasedChars ==
    { " ", "!", "\"", "#", "$", "%", "&", "'", "(", ")", "*", "+", ",",
       "-", ".", "/", "0", "1", "2", "3", "4", "5", "6", "7", "8", "9",
       ":", ";", "<", "=", ">", "?", "@", "[", "\\", "]", "^", "_",
       "<U+0060>", "{", "|", "}", "~", "<U+00A0>", "<U+00A1>",
       "<U+00A2>", "<U+00A3>", "<U+00A4>", "<U+00A5>", "<U+00A6>",
       "<U+00A7>", "<U+00A8>", "<U+00A9>", "<U+00AB>", "<U+00AC>",
       "<U+00AD>", "<U+00AE>", "<U+00AF>", "<U+00B0>", "<U+00B1>",
       "<U+00B2>", "<U+00B3>", "<U+00B4>", "<U+00B6>", "<U+00B7>",
       "<U+00B8>", "<U+00B9>", "<U+00BB>", "<U+00BC>", "<U+00BD>",
       "<U+00BE>", "<U+00BF>", "<U+00D7>", "<U+00F7>" }

\* the title case of a cased character, as str.title() writes it at the start
\* of a word: one or two characters
TitleOf ==
    [c \in CasedChars \ DOMAIN OtherTitle |->
        IF IndexOf(LowerLetters, c) # 0 THEN <<UpperLetters[IndexOf(LowerLetters, c)]>>
        ELSE <<c>>]
    @@ OtherTitle

\* the lower case of a cased character, as str.title() writes it inside a word
LowerOf ==
    [c \in CasedChars \ DOMAIN OtherTitle |->
        IF IndexOf(UpperLetters, c) # 0 THEN <<LowerLetters[IndexOf(UpperLetters, c)]>>
        ELSE <<c>>]
    @@ [c \in DOMAIN OtherTitle |-> <<c>>]

\* c is a cased character
IsCased(c) == c \in CasedChars

\* s.replace(a, b) for one-character a and b
Replace(s, a, b) == [i \in 1..Len(s) |-> IF s[i] = a THEN b ELSE s[i]]

\* what s.title() writes for s[i]: an uncased character unchanged, a cased
\* character in title case after an uncased character or at the start, in
\* lower case after a cased character
TitleAt(s, i) ==
    CASE s[i] \in UncasedChars -> <<s[i]>>
      [] IsCased(s[i]) ->
            IF i > 1 /\ IsCased(s[i - 1]) THEN LowerOf[s[i]] ELSE TitleOf[s[i]]

\* s[i..].title() given the characters before it
RECURSIVE TitleFrom(_, _)
TitleFrom(s, i) ==
    IF i > Len(s) THEN <<>> ELSE TitleAt(s, i) \o TitleFrom(s, i + 1)

\* s.title()
Title(s) == TitleFrom(s, 1)

HeaderLabel(item) == Title(Replace(item, "_", " "))

(***************************************************************************)
(* The clock.  A call reads datetime.now() twice: now holds the date of    *)
(* the first reading (year, month, day) and the timestamp of the second    *)
(* (ts, as whole seconds and microseconds).                                *)
(***************************************************************************)
Pad2(k) == IF k < 10 THEN <<"0">> \o NatStr(k) ELSE NatStr(k)

Pad4(k) ==
    IF k < 10 THEN <<"0", "0", "0">> \o NatStr(k)
    ELSE IF k < 100 THEN <<"0", "0">> \o NatStr(k)
    ELSE IF k < 1000 THEN <<"0">> \o NatStr(k)
    ELSE NatStr(k)

\* now.strftime("%Y%m%d")
StrfYmd(now) == Pad4(now.year) \o Pad2(now.month) \o Pad2(now.day)

(***************************************************************************)
(* create_pdf_from_excel                                                   *)
(***************************************************************************)
None == "None"

\* pdf.cell(w, h=8, txt, border, ln) under the font style and size in force
Cell(w, txt, border, ln, style, size) ==
    [w |-> w, h |-> 8, txt |-> txt, border |-> border, ln |-> ln,
     style |-> style, size |-> size]

NoPdf == [cells |-> <<>>, image |-> None]

\* the logo bytes that pdf.image can decode
ValidImage(logo_data) == logo_data = "png"

\* the digits of a fraction of micro microseconds: six digits without the
\* trailing zeros, "0" for none
RECURSIVE StripZeros(_)
StripZeros(txt) ==
    IF Len(txt) = 0 THEN <<"0">>
    ELSE IF txt[Len(txt)] = "0" THEN StripZeros(SubSeq(txt, 1, Len(txt) - 1))
    ELSE txt

Pad6(k) ==
    LET d == NatStr(k)
    IN  [i \in 1..(6 - Len(d)) |-> "0"] \o d

\* str(datetime.now().timestamp()): the float of the seconds since the epoch
TimestampStr(ts) == NatStr(ts.sec) \o <<".">> \o StripZeros(Pad6(ts.micro))

\* logo_path = f"temp_logo_{datetime.now().timestamp()}.png"
LogoPath(now) == <<"temp_logo_">> \o TimestampStr(now.ts) \o <<".png">>

\* the except branch of create_pdf_from_excel: the exception it re-raises,
\* and the temporary files the call leaves behind
Raise(file, cause, temp) ==
    [ok |-> FALSE, pdf |-> NoPdf, filename |-> <<>>, temp |-> temp,
     msg |-> <<"Error processing ">> \o file.name \o <<": ">> \o cause]

\* str(KeyError(key))
KeyErrorMsg(key) == <<"'">> \o key \o <<"'">>

\* the keys the row loop reads, in the order it reads them
RowKeys ==
    <<ColProductId, ColProductName, ColAmountPurchased, ColPricePerUnit,
      ColTotalPrice>>

\* the first key of keys[i..] that is no column of the sheet, <<>> when all are
RECURSIVE FirstMissing(_, _, _)
FirstMissing(sheet, keys, i) ==
    IF i > Len(keys) THEN <<>>
    ELSE IF IndexOf(sheet.columns, keys[i]) = 0 THEN keys[i]
    ELSE FirstMissing(sheet, keys, i + 1)

\* the two header lines
HeaderCells(invoice_nr, date) ==
    << Cell(50, <<"Invoice nr.">> \o invoice_nr, 0, 1, "B", 16),
       Cell(50, <<"Date: ">> \o date, 0, 1, "B", 16) >>

\* the table header row
TableHeaderCells(columns) ==
    << Cell(30, HeaderLabel(columns[1]), 1, 0, "B", 10),
       Cell(70, HeaderLabel(columns[2]), 1, 0, "B", 10),
       Cell(30, HeaderLabel(columns[3]), 1, 0, "B", 10),
       Cell(30, HeaderLabel(columns[4]), 1, 0, "B", 10),
       Cell(30, HeaderLabel(columns[5]), 1, 1, "B", 10) >>

\* the table row of row r
RowCells(sheet, r) ==
    << Cell(30, Str(RowValue(sheet, r, ColProductId)), 1, 0, "", 10),
       Cell(70, Str(RowValue(sheet, r, ColProductName)), 1, 0, "", 10),
       Cell(30, Str(RowValue(sheet, r, ColAmountPurchased)), 1, 0, "", 10),
       Cell(30, Str(RowValue(sheet, r, ColPricePerUnit)), 1, 0, "", 10),
       Cell(30, Str(RowValue(sheet, r, ColTotalPrice)), 1, 1, "", 10) >>

RECURSIVE TableRows(_, _)
TableRows(sheet, r) ==
    IF r > Len(sheet.rows) THEN <<>>
    ELSE RowCells(sheet, r) \o TableRows(sheet, r + 1)

\* the total row and the summary line
TotalCells(total_sum) ==
    << Cell(30, <<>>, 1, 0, "", 10),
       Cell(70, <<>>, 1, 0, "", 10),
       Cell(30, <<>>, 1, 0, "", 10),
       Cell(30, <<>>, 1, 0, "", 10),
       Cell(30, Str(total_sum), 1, 1, "", 10),
       Cell(30, <<"The total price is ">> \o Str(total_sum), 0, 1, "B", 10) >>

NoException == [raised |-> FALSE, cause |-> <<>>, logo_written |-> FALSE]

Exception(cause, logo_written) ==
    [raised |-> TRUE, cause |-> cause, logo_written |-> logo_written]

\* the characters Latin-1 encodes (the printable ones)
Latin1Chars == CasedChars \cup UncasedChars

\* txt.encode("latin1") succeeds: every character of txt is of Latin-1 (the
\* title case of the micro sign and of the y with diaeresis are not)
Latin1(txt) == \A i \in 1..Len(txt) : txt[i] \in Latin1Chars

\* pdf.output encodes the page, the texts of its cells included, in Latin-1:
\* every text put on the page can be encoded.  The texts of the f-strings and
\* of the numbers are ASCII; the others are the invoice number and the date
\* of the file name, the labels, the texts of the rows, the total and the
\* company name.
PageEncodes(file, company_name) ==
    LET filename == Stem(file.name)
        parts == Split(filename, "-")
        sheet == file.sheet
        total == ColumnSum(sheet, ColTotalPrice).val
    IN  /\ IF Len(parts) >= 2 THEN Latin1(parts[1]) /\ Latin1(parts[2])
                              ELSE Latin1(filename)
        /\ \A j \in 1..5 : Latin1(HeaderLabel(sheet.columns[j]))
        /\ \A r \in 1..Len(sheet.rows) : \A k \in 1..Len(RowKeys) :
                LET v == sheet.rows[r][IndexOf(sheet.columns, RowKeys[k])]
                IN  v.t = "str" => Latin1(v.s)
        /\ total.t = "str" => Latin1(total.s)
        /\ Latin1(company_name)

\* the first exception raised inside the try block, with its str(e), and
\* whether the temporary logo file was written before it; NoException when
\* the block reaches its return.  The message of the encoding error goes on
\* with the character and its position in the page, which are left out.
TryBlock(file, company_name, logo_data) ==
    LET sheet == file.sheet
        missing == FirstMissing(sheet, RowKeys, 1)
        total == ColumnSum(sheet, ColTotalPrice)
    IN  IF ~sheet.present
            THEN Exception(<<"Worksheet named 'Sheet 1' not found">>, FALSE)
        ELSE IF Len(sheet.columns) < 5
            THEN Exception(<<"list index out of range">>, FALSE)
        ELSE IF Len(sheet.rows) > 0 /\ missing # <<>>
            THEN Exception(KeyErrorMsg(missing), FALSE)
        ELSE IF IndexOf(sheet.columns, ColTotalPrice) = 0
            THEN Exception(KeyErrorMsg(ColTotalPrice), FALSE)
        ELSE IF ~total.ok
            THEN Exception(total.msg, FALSE)
        ELSE IF logo_data # None /\ ~ValidImage(logo_data)
            THEN Exception(<<"cannot read image">>, TRUE)
        ELSE IF ~PageEncodes(file, company_name)
            THEN Exception(<<"'latin-1' codec can't encode character">>, FALSE)
        ELSE NoException

\* the result of one call: [ok, pdf, filename] on return, [ok, msg] on raise;
\* temp holds the temporary files that exist when the call ends
CreatePdfFromExcel(file, company_name, logo_data, now) ==
    LET filename == Stem(file.name)
        parts == Split(filename, "-")
        invoice_nr == IF Len(parts) >= 2 THEN parts[1] ELSE filename
        date == IF Len(parts) >= 2 THEN parts[2] ELSE StrfYmd(now)
        sheet == file.sheet
        exc == TryBlock(file, company_name, logo_data)
        cells == HeaderCells(invoice_nr, date)
                 \o TableHeaderCells(sheet.columns)
                 \o TableRows(sheet, 1)
                 \o TotalCells(ColumnSum(sheet, ColTotalPrice).val)
                 \o <<Cell(25, company_name, 0, 0, "B", 10)>>
    IN  IF exc.raised
        THEN Raise(file, exc.cause, IF exc.logo_written THEN {LogoPath(now)} ELSE {})
        ELSE [ok |-> TRUE, pdf |-> [cells |-> cells, image |-> logo_data],
              filename |-> filename, temp |-> {}, msg |-> <<>>]

(***************************************************************************)
(* The inputs.                                                             *)
(***************************************************************************)
\* the uploader accepts .xlsx files only
Ext == <<".", "x", "l", "s", "x">>

StdColumns ==
    <<ColProductId, ColProductName, ColAmountPurchased, ColPricePerUnit,
      ColTotalPrice>>

\* a row of the standard columns whose total_price is v
Row(v) == <<IntVal(101), StrVal(<<"P", "e", "n">>), IntVal(2), FloatVal(3), v>>

\* a sheet of the standard columns whose total_price column is totals
Table(totals) ==
    [present |-> TRUE, columns |-> StdColumns,
     rows |-> [r \in 1..Len(totals) |-> Row(totals[r])]]

\* a workbook without a sheet named "Sheet 1"
NoSheet == [present |-> FALSE, columns |-> <<>>, rows |-> <<>>]

\* a sheet that lacks the fifth column
FourColumns ==
    [present |-> TRUE, columns |-> SubSeq(StdColumns, 1, 4),
     rows |-> << SubSeq(Row(IntVal(1)), 1, 4) >>]

\* a sheet whose fifth column has another name, with nrows rows
Renamed(nrows) ==
    [present |-> TRUE,
     columns |-> [StdColumns EXCEPT ![5] =
                     <<"t", "o", "t", "a", "l", "_", "c", "o", "s", "t">>],
     rows |-> [r \in 1..nrows |-> Row(IntVal(1))]]

\* a sheet without rows whose first column is headed "sKU_a1b"
OtherHeader ==
    [present |-> TRUE,
     columns |-> [StdColumns EXCEPT ![1] = <<"s", "K", "U", "_", "a", "1", "b">>],
     rows |-> <<>>]

\* a sheet without rows whose first column is headed by e-acute, "_",
\* "gr", o-diaeresis, sharp s, "e_" and sharp s: a header of Latin-1 letters
AccentedHeader ==
    [present |-> TRUE,
     columns |-> [StdColumns EXCEPT ![1] =
                     <<"<U+00E9>", "_", "g", "r", "<U+00F6>", "<U+00DF>", "e",
                       "_", "<U+00DF>">>],
     rows |-> <<>>]

\* a sheet without rows whose first column is headed by the micro sign and
\* "m": its label starts with a Greek capital
MicroHeader ==
    [present |-> TRUE,
     columns |-> [StdColumns EXCEPT ![1] = <<"<U+00B5>", "m">>],
     rows |-> <<>>]

\* the total_price values of the single-file runs: 1, 12, 2.5 and the text "x"
TotalValues == {IntVal(1), IntVal(12), FloatVal(5), StrVal(<<"x">>)}

NameChars == {"A", "-", "."}

\* the files of the single-file runs: every name with two sheets, and every
\* sheet under one name
SingleFiles ==
    [name : {b \o Ext : b \in SeqsOf(NameChars, 1, MaxNameLen)},
     sheet : {Table(<<IntVal(1)>>), NoSheet}]
    \cup
    [name : {<<"A", "-", "A">> \o Ext},
     sheet : {Table(t) : t \in SeqsOf(TotalValues, 0, MaxRows)}
             \cup {NoSheet, FourColumns, Renamed(0), Renamed(1), OtherHeader,
                   AccentedHeader, MicroHeader}]

\* the files of the batch runs: two names, each with a sheet of one row and
\* without the sheet, and a second sheet under the first name
BatchFiles ==
    [name : {<<"A">> \o Ext, <<"A", "-", "B">> \o Ext},
     sheet : {Table(<<IntVal(1)>>), NoSheet}]
    \cup
    {[name |-> <<"A">> \o Ext, sheet |-> Table(<<FloatVal(5), IntVal(12)>>)]}

\* the logo uploads: none, a readable image, bytes that are no image
Logos == {None, "png", "bad"}

\* the days the clock may show
Days ==
    {[year |-> 2026, month |-> 10, day |-> 29],
     [year |-> 2027, month |-> 1, day |-> 5]}

\* the timestamps the clock may show: 1.0 and 1793275200.1234
Timestamps ==
    {[sec |-> 1, micro |-> 0], [sec |-> 1793275200, micro |-> 123400]}

CompanyName == <<"P", "y", "t", "h", "o", "n", "H", "o", "w">>

(***************************************************************************)
(* pdf_files is a dict: a sequence of [name, data] in insertion order.     *)
(***************************************************************************)
DictKeys(d) == [i \in 1..Len(d) |-> d[i].name]

DictHas(d, k) == \E i \in 1..Len(d) : d[i].name = k

DictGet(d, k) == d[IndexOf(DictKeys(d), k)].data

\* variants of DictSet, not the code's: a list that takes every entry, a dict
\* that moves an overwritten key to the end, a dict that keeps the first value
DictSetAppend(d, k, v) == Append(d, [name |-> k, data |-> v])

DictSetMoveToEnd(d, k, v) ==
    Append(SelectSeq(d, LAMBDA e : e.name # k), [name |-> k, data |-> v])

DictSetKeepFirst(d, k, v) ==
    IF DictHas(d, k) THEN d ELSE Append(d, [name |-> k, data |-> v])

\* d[k] = v: a new key goes last, a key of d keeps its place
DictSet(d, k, v) ==
    IF DictHas(d, k)
    THEN [i \in 1..Len(d) |-> IF d[i].name = k THEN [name |-> k, data |-> v] ELSE d[i]]
    ELSE Append(d, [name |-> k, data |-> v])

\* a variant of ErrorEntry without the file's name; not the code's
ErrorEntryBare(file, e) == e

\* the entry of errors for an exception e raised on file
ErrorEntry(file, e) == <<"<U+274C> ">> \o file.name \o <<": ">> \o e

\* a variant of LoopBody that also stores what a failed call left; not the
\* code's
LoopBodyStoresFailed(file, res, pdfs, errs) ==
    [pdf_files |-> DictSet(pdfs, Stem(file.name) \o <<".pdf">>, res.pdf),
     errors |-> IF res.ok THEN errs ELSE Append(errs, ErrorEntry(file, res.msg))]

\* one iteration of the loop over uploaded_files, for the result res of
\* create_pdf_from_excel on file
LoopBody(file, res, pdfs, errs) ==
    IF res.ok
    THEN [pdf_files |-> DictSet(pdfs, res.filename \o <<".pdf">>, res.pdf),
          errors |-> errs]
    ELSE [pdf_files |-> pdfs, errors |-> Append(errs, ErrorEntry(file, res.msg))]

(***************************************************************************)
(* The state machine.  pc is "idle" until the Convert button is pressed,   *)
(* "loop" during the loop over uploaded_files, "done" after it.  idx is    *)
(* the position (from 1) of the file the loop handles next.                *)
(***************************************************************************)
Init ==
    /\ uploaded_files = <<>>
    /\ logo_file = None
    /\ pc = "idle"
    /\ idx = 0
    /\ pdf_files = <<>>
    /\ errors = <<>>
    /\ temp_files = {}

UploadFile ==
    /\ pc = "idle"
    /\ Len(uploaded_files) < MaxFiles
    /\ \E f \in BatchFiles : uploaded_files' = Append(uploaded_files, f)
    /\ UNCHANGED <<logo_file, pc, idx, pdf_files, errors, temp_files>>

UploadLogo ==
    /\ pc = "idle"
    /\ logo_file = None
    /\ \E l \in Logos \ {None} : logo_file' = l
    /\ UNCHANGED <<uploaded_files, pc, idx, pdf_files, errors, temp_files>>

Convert ==
    /\ pc = "idle"
    /\ Len(uploaded_files) > 0
    /\ pc' = "loop"
    /\ idx' = 1
    /\ pdf_files' = <<>>
    /\ errors' = <<>>
    /\ UNCHANGED <<uploaded_files, logo_file, temp_files>>

\* the dates a call on file may read: the clock is read for the date only
\* when the stem has a single segment
DaysRead(file) ==
    IF Len(Split(Stem(file.name), "-")) >= 2 THEN {CHOOSE d \in Days : TRUE}
    ELSE Days

\* the timestamps a call may read: the clock is read for the name of the
\* temporary file only when there is a logo
TimestampsRead(logo_data) ==
    IF logo_data = None THEN {CHOOSE t \in Timestamps : TRUE} ELSE Timestamps

LoopStep ==
    /\ pc = "loop"
    /\ idx <= Len(uploaded_files)
    /\ \E day \in DaysRead(uploaded_files[idx]), ts \in TimestampsRead(logo_file) :
        LET now == [year |-> day.year, month |-> day.month, day |-> day.day,
                    ts |-> ts]
            file == uploaded_files[idx]
            res == CreatePdfFromExcel(file, CompanyName, logo_file, now)
            out == LoopBody(file, res, pdf_files, errors)
        IN  /\ pdf_files' = out.pdf_files
            /\ errors' = out.errors
            /\ temp_files' = temp_files \cup res.temp
    /\ idx' = idx + 1
    /\ UNCHANGED <<uploaded_files, logo_file, pc>>

Finish ==
    /\ pc = "loop"
    /\ idx > Len(uploaded_files)
    /\ pc' = "done"
    /\ UNCHANGED <<uploaded_files, logo_file, idx, pdf_files, errors, temp_files>>

Next == UploadFile \/ UploadLogo \/ Convert \/ LoopStep \/ Finish

Spec == Init /\ [][Next]_vars

\* the runs on one file, drawn from SingleFiles
InitSingle ==
    /\ uploaded_files \in {<<f>> : f \in SingleFiles}
    /\ logo_file \in Logos
    /\ pc = "idle"
    /\ idx = 0
    /\ pdf_files = <<>>
    /\ errors = <<>>
    /\ temp_files = {}

NextSingle == Convert \/ LoopStep \/ Finish

SpecSingle == InitSingle /\ [][NextSingle]_vars

(***************************************************************************)
(* Vocabulary of the properties.  They describe the inputs without the     *)
(* operators of the model: a name is its base followed by ".xlsx", a       *)
(* number is read back from its digits.                                    *)
(***************************************************************************)
N == Len(uploaded_files)

Range(s) == {s[i] : i \in 1..Len(s)}

\* the name of a file without its extension
BaseName(file) == SubSeq(file.name, 1, Len(file.name) - Len(Ext))

\* the output filename of a file
OutKey(file) == BaseName(file) \o <<".pdf">>

\* the total_price values of a file with the standard columns
Totals(file) == [r \in 1..Len(file.sheet.rows) |-> file.sheet.rows[r][5]]

HasTotals(file) == file.sheet.present /\ file.sheet.columns = StdColumns

AllNumeric(vals) == \A r \in 1..Len(vals) : vals[r].t \in {"int", "float"}

\* the value of a number in halves
Halves(v) == IF v.t = "int" THEN 2 * v.n ELSE v.n

RECURSIVE SumHalves(_, _)
SumHalves(vals, r) ==
    IF r > Len(vals) THEN 0 ELSE Halves(vals[r]) + SumHalves(vals, r + 1)

DigitValue(c) ==
    CASE c = "0" -> 0 [] c = "1" -> 1 [] c = "2" -> 2 [] c = "3" -> 3
      [] c = "4" -> 4 [] c = "5" -> 5 [] c = "6" -> 6 [] c = "7" -> 7
      [] c = "8" -> 8 [] c = "9" -> 9

RECURSIVE ReadNat(_)
ReadNat(txt) ==
    IF Len(txt) = 0 THEN 0
    ELSE 10 * ReadNat(SubSeq(txt, 1, Len(txt) - 1)) + DigitValue(txt[Len(txt)])

IsDigits(txt) ==
    Len(txt) > 0 /\ \A i \in 1..Len(txt) : txt[i] \in {"0", "1", "2", "3", "4",
                                                       "5", "6", "7", "8", "9"}

\* txt is the decimal form of h halves: digits alone for an int, digits, a
\* point and one digit for a float
ShowsNumber(txt, h, isFloat) ==
    IF isFloat
    THEN /\ Len(txt) >= 3
         /\ txt[Len(txt) - 1] = "."
         /\ IsDigits(SubSeq(txt, 1, Len(txt) - 2))
         /\ txt[Len(txt)] \in {"0", "5"}
         /\ 2 * ReadNat(SubSeq(txt, 1, Len(txt) - 2))
              + (IF txt[Len(txt)] = "5" THEN 1 ELSE 0) = h
    ELSE IsDigits(txt) /\ 2 * ReadNat(txt) = h

\* base = inv - date, or base = inv - date - ..., with no hyphen in inv and date
FirstTwoSegments(base, inv, date) ==
    /\ "-" \notin Range(inv)
    /\ "-" \notin Range(date)
    /\ Len(base) >= Len(inv) + 1 + Len(date)
    /\ SubSeq(base, 1, Len(inv) + 1 + Len(date)) = inv \o <<"-">> \o date
    /\ \/ Len(base) = Len(inv) + 1 + Len(date)
       \/ base[Len(inv) + Len(date) + 2] = "-"

\* the days of the clock as YYYYMMDD
YmdOfDays ==
    { <<"2", "0", "2", "6", "1", "0", "2", "9">>,
      <<"2", "0", "2", "7", "0", "1", "0", "5">> }

(***************************************************************************)
(* Properties of create_pdf_from_excel, over the single-file runs.         *)
(***************************************************************************)
TheFile == uploaded_files[1]
TheDoc == pdf_files[1].data
Converted == pc = "done" /\ Len(pdf_files) = 1

\* C6: the header of a document shows "Invoice nr." and "Date: " followed by
\* the first and the second hyphen-separated segment of the file's base name,
\* whatever follows the second segment; a base name without a hyphen gives the
\* whole base name and the day of the clock as YYYYMMDD.
C6_InvoiceNumberAndDate ==
    Len(pdf_files) = 1 =>
        LET base == BaseName(TheFile)
            line1 == TheDoc.cells[1].txt
            line2 == TheDoc.cells[2].txt
        IN  /\ Len(line1) >= 1 /\ line1[1] = "Invoice nr."
            /\ Len(line2) >= 1 /\ line2[1] = "Date: "
            /\ IF "-" \in Range(base)
               THEN FirstTwoSegments(base, Tail(line1), Tail(line2))
               ELSE Tail(line1) = base /\ Tail(line2) \in YmdOfDays

\* a document of a name of three segments
C6_Witness ==
    /\ Converted
    /\ BaseName(TheFile) = <<"A", "-", "A", "-", ".">>
    /\ TheDoc.cells[1].txt = <<"Invoice nr.", "A">>
    /\ TheDoc.cells[2].txt = <<"Date: ", "A">>

\* a document of a name of one segment, dated by the clock
C6_FallbackReached ==
    /\ Converted
    /\ BaseName(TheFile) = <<"A", ".", "A">>
    /\ TheDoc.cells[1].txt = <<"Invoice nr.", "A", ".", "A">>
    /\ TheDoc.cells[2].txt = <<"Date: ", "2", "0", "2", "7", "0", "1", "0", "5">>

\* C7: the key of a document in pdf_files is the name of its file with the
\* extension removed, followed by ".pdf"; the invoice number shown in the
\* document is taken from that same stem.
C7_KeyIsStemPdf ==
    Len(pdf_files) = 1 =>
        LET stem == SubSeq(pdf_files[1].name, 1, Len(pdf_files[1].name) - 1)
            inv == Tail(TheDoc.cells[1].txt)
        IN  /\ pdf_files[1].name = OutKey(TheFile)
            /\ Len(inv) <= Len(stem)
            /\ SubSeq(stem, 1, Len(inv)) = inv

C7_Witness ==
    /\ Converted
    /\ TheFile.name = <<"A", ".", "-", "A", ".", "x", "l", "s", "x">>
    /\ pdf_files[1].name = <<"A", ".", "-", "A", ".pdf">>

\* C8: for a sheet whose total_price values are all numbers, the fifth cell
\* of the total row shows their sum (0 for no rows), the four cells before it
\* are blank, and the summary line is "The total price is " and the same text.
C8_TotalIsSum ==
    (Len(pdf_files) = 1 /\ HasTotals(TheFile) /\ AllNumeric(Totals(TheFile))) =>
        LET vals == Totals(TheFile)
            k == 7 + 5 * Len(vals)
            cells == TheDoc.cells
            isFloat == \E r \in 1..Len(vals) : vals[r].t = "float"
        IN  /\ Len(cells) = k + 7
            /\ \A c \in 1..4 : cells[k + c].txt = <<>> /\ cells[k + c].border = 1
            /\ ShowsNumber(cells[k + 5].txt, SumHalves(vals, 1), isFloat)
            /\ cells[k + 6].txt = <<"The total price is ">> \o cells[k + 5].txt

\* 12 + 2.5 = 14.5
C8_Witness ==
    /\ Converted
    /\ Totals(TheFile) = <<IntVal(12), FloatVal(5)>>
    /\ TheDoc.cells[22].txt = <<"1", "4", ".", "5">>
    /\ TheDoc.cells[23].txt = <<"The total price is ", "1", "4", ".", "5">>

\* a sheet without rows totals 0
C8_EmptyReached ==
    /\ Converted
    /\ Totals(TheFile) = <<>>
    /\ TheDoc.cells[13].txt = <<"The total price is ", "0">>

\* the header "sKU_a1b" is shown as "Sku A1B"
HeaderTitleReached ==
    /\ Converted
    /\ TheFile.sheet = OtherHeader
    /\ TheDoc.cells[3].txt = <<"S", "k", "u", " ", "A", "1", "B">>
    /\ TheDoc.cells[7].txt = <<"T", "o", "t", "a", "l", " ", "P", "r", "i", "c", "e">>

\* the accented header is shown as E-acute, " Gr", o-diaeresis, sharp s,
\* "e Ss"
AccentedHeaderReached ==
    /\ Converted
    /\ TheFile.sheet = AccentedHeader
    /\ TheDoc.cells[3].txt =
           <<"<U+00C9>", " ", "G", "r", "<U+00F6>", "<U+00DF>", "e", " ", "S", "s">>

\* the label of the micro sign cannot be encoded: the file fails
MicroHeaderReached ==
    /\ pc = "done"
    /\ TheFile.sheet = MicroHeader
    /\ pdf_files = <<>>
    /\ errors = <<ErrorEntry(TheFile,
                     <<"Error processing ">> \o TheFile.name
                     \o <<": ", "'latin-1' codec can't encode character">>)>>

\* C9: a file whose total_price column holds an entry that is no number ends
\* in one entry of errors and no document.
C9_NonNumericFails ==
    (pc = "done" /\ HasTotals(TheFile) /\ ~AllNumeric(Totals(TheFile))) =>
        Len(pdf_files) = 0 /\ Len(errors) = 1

(***************************************************************************)
(* Properties of the batch loop, over the batch runs.                      *)
(***************************************************************************)
NowOn(d) ==
    [year |-> d.year, month |-> d.month, day |-> d.day,
     ts |-> [sec |-> 1, micro |-> 0]]

\* what create_pdf_from_excel does on file i when the clock shows day d
ResultOn(i, d) ==
    CreatePdfFromExcel(uploaded_files[i], CompanyName, logo_file, NowOn(d))

\* file i fails; the clock does not decide it
Fails(i) == TryBlock(uploaded_files[i], CompanyName, logo_file).raised

\* the documents file i may yield
DocsOf(i) == {ResultOn(i, d).pdf : d \in DaysRead(uploaded_files[i])}

KeyOf(i) == OutKey(uploaded_files[i])

\* the number of files the loop has handled
Processed == IF pc = "idle" THEN 0 ELSE idx - 1

Failed == {i \in 1..Processed : Fails(i)}
Succeeded == {i \in 1..Processed : ~Fails(i)}

\* file i is the first, the last, of the files of S with its key
IsFirstOfKey(S, i) == \A j \in S : KeyOf(j) = KeyOf(i) => i <= j
IsLastOfKey(S, i) == \A j \in S : KeyOf(j) = KeyOf(i) => j <= i

\* the failed files in input order
RECURSIVE FailedSeq(_)
FailedSeq(k) ==
    IF k = 0 THEN <<>>
    ELSE IF Fails(k) THEN Append(FailedSeq(k - 1), k) ELSE FailedSeq(k - 1)

Pos(k) == IndexOf(DictKeys(pdf_files), k)

\* the cause of the failure of a file of the batch runs: the sheet is read
\* before the logo is embedded
CauseOf(file) ==
    IF ~file.sheet.present THEN <<"Worksheet named 'Sheet 1' not found">>
    ELSE <<"cannot read image">>

\* C1 as stated: after the loop, len(pdf_files) + len(errors) is the number of
\* uploaded files.
C1_CountsAddUp ==
    pc = "done" => Len(pdf_files) + Len(errors) = N

\* C1 amended: after the loop, len(pdf_files) + len(errors) is the number of
\* uploaded files less the number of successful files whose output filename
\* an earlier successful file of the batch already had.
C1_CountsAddUpToDistinct ==
    pc = "done" =>
        LET S == Succeeded
        IN  Len(pdf_files) + Len(errors)
                = N - Cardinality({i \in S : ~IsFirstOfKey(S, i)})

\* three files of distinct output names, one of them failing
C1_Witness ==
    /\ pc = "done" /\ N = 3
    /\ Len(pdf_files) = 2 /\ Len(errors) = 1

\* a failed file leaves nothing in pdf_files: every entry is the key and a
\* document of a handled file that succeeded
FailedAddNothing ==
    LET S == Succeeded
    IN  \A p \in 1..Len(pdf_files) :
            \E j \in S :
                pdf_files[p].name = KeyOf(j) /\ pdf_files[p].data \in DocsOf(j)

\* the loop ends only after the last file, with one outcome per failed file
AllProcessed ==
    pc = "done" => idx = N + 1 /\ Len(errors) = Cardinality(Failed)

\* C2 as stated: a failing file adds nothing to pdf_files and the files after
\* it are still handled, and in a batch with a failing file every file that
\* does not fail ends with its document in pdf_files.
C2_FailureIsolation ==
    /\ FailedAddNothing
    /\ AllProcessed
    /\ (pc = "done" /\ Failed # {}) =>
          \A j \in Succeeded :
              DictHas(pdf_files, KeyOf(j)) /\ DictGet(pdf_files, KeyOf(j)) \in DocsOf(j)

\* C2 amended: a failing file adds nothing to pdf_files and the files after
\* it are still handled; every file that does not fail ends with its output
\* filename in pdf_files, holding its document unless a later file that does
\* not fail has the same output filename.
C2_FailureIsolationLastKept ==
    /\ FailedAddNothing
    /\ AllProcessed
    /\ pc = "done" =>
          LET S == Succeeded
          IN  \A j \in S :
                  /\ DictHas(pdf_files, KeyOf(j))
                  /\ IsLastOfKey(S, j) => DictGet(pdf_files, KeyOf(j)) \in DocsOf(j)

\* three files, the second without a sheet named "Sheet 1"
C2_Witness ==
    /\ pc = "done" /\ N = 3
    /\ ~Fails(1) /\ Fails(2) /\ ~Fails(3)
    /\ DictKeys(pdf_files) = <<KeyOf(1), KeyOf(3)>>
    /\ Len(errors) = 1

\* C3 as stated: every failed file has one entry in errors, the file's name,
\* ": " and the failure description; a file that succeeds has none.
C3_ErrorEntryIsNameAndCause ==
    LET failed == FailedSeq(Processed)
    IN  /\ Len(errors) = Len(failed)
        /\ \A k \in 1..Len(errors) :
              LET file == uploaded_files[failed[k]]
              IN  \/ errors[k] = file.name \o <<": ">> \o CauseOf(file)
                  \/ errors[k] = file.name \o <<": ">>
                          \o <<"Error processing ">> \o file.name \o <<": ">> \o CauseOf(file)

\* C3 amended: every failed file has one entry in errors, which is the cross
\* mark U+274C and a space, the file's name, ": ", and the message
\* "Error processing ", the file's name, ": " and the cause; a file that
\* succeeds has none.
C3_ErrorEntryIsMarkNameAndMessage ==
    LET failed == FailedSeq(Processed)
    IN  /\ Len(errors) = Len(failed)
        /\ \A k \in 1..Len(errors) :
              LET file == uploaded_files[failed[k]]
              IN  errors[k] = <<"<U+274C> ">> \o file.name \o <<": ">>
                          \o <<"Error processing ">> \o file.name \o <<": ">> \o CauseOf(file)

\* a file without the sheet, then a file that succeeds
C3_Witness ==
    /\ pc = "done" /\ N = 2
    /\ Fails(1) /\ ~Fails(2)
    /\ errors = << <<"<U+274C> ", "A", ".", "x", "l", "s", "x", ": ",
                     "Error processing ", "A", ".", "x", "l", "s", "x", ": ",
                     "Worksheet named 'Sheet 1' not found">> >>

\* the entries of errors are those of the failed files in input order
ErrorsInInputOrder ==
    LET failed == FailedSeq(Processed)
    IN  /\ Len(errors) = Len(failed)
        /\ \A k \in 1..Len(errors) :
              LET file == uploaded_files[failed[k]]
              IN  SubSeq(errors[k], 2, Len(file.name) + 1) = file.name

\* C4 as stated: files are handled in input order, and of two files whose
\* documents are in pdf_files the earlier file's entry is enumerated first;
\* errors follows input order.
C4_EnumerationFollowsProducer ==
    /\ ErrorsInInputOrder
    /\ LET S == Succeeded
       IN  \A i, j \in S :
              (i < j /\ IsLastOfKey(S, i) /\ IsLastOfKey(S, j)
                 /\ DictHas(pdf_files, KeyOf(i)) /\ DictHas(pdf_files, KeyOf(j)))
              => Pos(KeyOf(i)) < Pos(KeyOf(j))

\* C4 amended: files are handled in input order; the keys of pdf_files are
\* enumerated in the order of the first successful file of each output
\* filename (an overwritten key keeps its place); errors follows input order.
C4_EnumerationFollowsFirstInsertion ==
    /\ ErrorsInInputOrder
    /\ LET S == Succeeded
       IN  \A i, j \in S :
              (i < j /\ IsFirstOfKey(S, i) /\ IsFirstOfKey(S, j))
              => /\ DictHas(pdf_files, KeyOf(i)) /\ DictHas(pdf_files, KeyOf(j))
                 /\ Pos(KeyOf(i)) < Pos(KeyOf(j))

\* files A, A-B, A all succeed: A.pdf stays first and holds the third file's
\* document
C4_Witness ==
    /\ pc = "done" /\ N = 3 /\ Failed = {}
    /\ KeyOf(1) = KeyOf(3) /\ KeyOf(1) # KeyOf(2)
    /\ DictKeys(pdf_files) = <<KeyOf(1), KeyOf(2)>>
    /\ pdf_files[1].data \in DocsOf(3)
    /\ pdf_files[1].data \notin DocsOf(1)

\* C5: when two files that succeed have the same output filename, pdf_files
\* holds one entry of that filename, with the document of the last of them,
\* and errors holds the entries of the failed files only.
C5_LastWriteWins ==
    pc = "done" =>
        LET S == Succeeded
        IN  /\ \A i, j \in S :
                  (i < j /\ KeyOf(i) = KeyOf(j) /\ IsLastOfKey(S, j))
                  => /\ Cardinality({p \in 1..Len(pdf_files) : pdf_files[p].name = KeyOf(j)}) = 1
                     /\ DictGet(pdf_files, KeyOf(j)) \in DocsOf(j)
            /\ Len(errors) = Processed - Cardinality(S)

\* two files of one name and different sheets
C5_Witness ==
    /\ pc = "done" /\ N = 2 /\ Failed = {}
    /\ KeyOf(1) = KeyOf(2)
    /\ DocsOf(1) \cap DocsOf(2) = {}
    /\ Len(pdf_files) = 1
    /\ pdf_files[1].data \in DocsOf(2)
    /\ errors = <<>>

\* two calls at one timestamp leave one file, named by the float's text
TempFileNamesReached ==
    /\ pc = "done" /\ N = 2
    /\ temp_files = {<<"temp_logo_", "1", ".", "0", ".png">>}

TempFileNamesReached2 ==
    /\ pc = "done" /\ N = 2
    /\ temp_files = {<<"temp_logo_", "1", ".", "0", ".png">>,
                     <<"temp_logo_", "1", "7", "9", "3", "2", "7", "5", "2", "0", "0",
                       ".", "1", "2", "3", "4", ".png">>}

\* C10: no temporary logo file exists once a call of create_pdf_from_excel
\* has ended, whether it returned or raised.
C10_NoTempFileRemains == temp_files = {}

====
